---- MODULE Spec2Model ----
(***************************************************************************)
(* Model of the MockView adaptive interview engine                        *)
(* (lib/services/interview-engine: generateQuestionPlan,                  *)
(* initializeInterviewState, determineNextAction, startInterview,         *)
(* processAnswer, getInterviewState) and of the                           *)
(* POST /api/interview/finish handler, over the Interview / Question /    *)
(* Answer tables of one session.                                          *)
(*                                                                         *)
(* Scores are kept in tenths (a score of 4 is 40, 1.9 is 19).  An Answer   *)
(* row is kept by its question_id, so the answers table is the number of  *)
(* rows of each question; the running avg_score of a competency and the   *)
(* overall_score of the answers are kept apart, in avgScore and            *)
(* answerScores.                                                           *)
(* Time is kept in half minutes, so that Math.round of a duration in      *)
(* minutes is a real rounding.                                            *)
(***************************************************************************)
EXTENDS Integers, Sequences, FiniteSets, TLC

(* ------------------------------ bounds -------------------------------- *)
\* config.interview.maxQuestions (default 15), scaled down
MaxQuestions == 3
\* config.interview.maxFollowUpDepth (default 3), scaled down
MaxFollowUpDepth == 1
\* config.interview.maxDurationMinutes (default 45), scaled down to the clock
\* (half minutes)
MaxDuration == 1
\* number of startInterview calls in one behaviour
MaxStarts == 2
\* last tick of the clock (half minutes)
MaxTime == 1
\* number of Answer rows in the table
MaxAnswers == MaxQuestions + 1

VARIABLES
  jd,               \* JobDescription.parsed_data.competency_areas of the session
  interviews,       \* table interviews: id -> row
  questions,        \* table questions: id -> row
  answers,          \* table answers: question_id -> number of Answer rows
  sessionStatus,    \* sessions.status of the session
  nextInterviewId,  \* autoIncrement of interviews.id
  nextQuestionId,   \* autoIncrement of questions.id
  now,              \* wall clock (new Date()), half minutes
  ret,              \* what the last call returned or threw
  cleanTurns,       \* history: processAnswer calls since a successful start,
                    \* all on the open question with no gateway failure; -1 otherwise
  decision,         \* the last determineNextAction call: its arguments and result
  planned,          \* the last generateQuestionPlan call: its arguments and result
  evaluated,        \* the last evaluateResponse call: what the generator supplied
                    \* and what the call returned
  gateway,          \* a generateJSON call: its loop counters, the backend calls
                    \* it has made and how it ended
  flight,           \* processAnswer calls that are between two awaits: request ->
                    \* where the call stands and its local variables
  avgScore,         \* interview_state.competencies[c].avg_score of the interview,
                    \* as a fraction: competency -> [num, den]
  answerScores,     \* the Answer rows of the interview by the competency of their
                    \* Question: competency -> their number and the sum of their
                    \* evaluation.overall_score
  runs,             \* two runs of the engine on the same answers: the setting of
                    \* config.dev.mockAiServices, the answers and what the calls
                    \* of the first run returned, and how the second run compares
  completion        \* a generateCompletion call: its loop counter, the fetch
                    \* outcomes it met and the waits it made

\* the variables of the engine's operations
engine == <<jd, interviews, questions, answers, sessionStatus,
            nextInterviewId, nextQuestionId, now, ret, cleanTurns>>

\* the score columns, followed in SpecScores only
scoring == <<avgScore, answerScores>>

\* the variables of the functions called on their own, other than decision,
\* of the calls in flight, of the score columns and of the two compared runs
calls == <<planned, evaluated, gateway, flight, scoring, runs, completion>>

vars == <<jd, interviews, questions, answers, sessionStatus,
          nextInterviewId, nextQuestionId, now, ret, cleanTurns, decision, calls>>

tables == <<interviews, questions, answers, sessionStatus>>

(* ------------------------------ helpers ------------------------------- *)
Max(a, b) == IF a >= b THEN a ELSE b

\* Round with the fraction cut off (Math.floor)
Round_floor(num, den) == num \div den

\* Math.round(num / den) for num >= 0, den > 0
Round(num, den) == (2 * num + den) \div (2 * den)

RECURSIVE SumSeq(_, _)
SumSeq(f, n) == IF n = 0 THEN 0 ELSE f[n] + SumSeq(f, n - 1)

\* a competency value of a generated question that is not in the plan
OtherCompetency == "Other"

\* the failure of a generateJSON call (it throws after its retries)
GatewayFailure == "failed"

\* a competency area of a parsed job description, with its relative weight
Area(name, weight) == [name |-> name, weight |-> weight]

\* parsed job descriptions: no competency area, one area, two areas of which
\* the first weighs double
JDInputs ==
  { <<>>,
    <<Area("A", 1)>>,
    <<Area("A", 2), Area("B", 1)>> }

\* results of evaluateResponse in an interview (overall_score in tenths):
\* a weak answer, an okay one with a probe suggested and a strong one
Evaluations ==
  { [ok |-> TRUE, overall_score |-> 15, suggested_follow_up |-> "clarify"],
    [ok |-> TRUE, overall_score |-> 30, suggested_follow_up |-> "probe"],
    [ok |-> TRUE, overall_score |-> 42, suggested_follow_up |-> "none"] }

\* evaluateResponse throwing (its generateJSON call failed)
EvaluationFailure == [ok |-> FALSE, overall_score |-> 0, suggested_follow_up |-> "none"]

NoRet ==
  [op |-> "none", ok |-> TRUE, error |-> "", isComplete |-> FALSE,
   status |-> "", currentQuestion |-> 0, total_questions |-> 0,
   duration_minutes |-> 0]

(* ------------------------- Question plan ------------------------------ *)
\* generateQuestionPlan with config.interview.maxQuestions = targetTotal
QuestionPlanFor(jdData, targetTotal) ==
  LET n == Len(jdData)
      totalWeight == SumSeq([i \in 1..n |-> jdData[i].weight], n)
      plannedQuestions(i) ==
        IF totalWeight > 0
          THEN Max(1, Round(jdData[i].weight * targetTotal, totalWeight))
          ELSE Max(1, Round(targetTotal, n))
      plannedCompetencies ==
        [i \in 1..n |-> [name |-> jdData[i].name,
                         weight |-> jdData[i].weight,
                         planned_questions |-> plannedQuestions(i)]]
      actualTotal ==
        SumSeq([i \in 1..n |-> plannedCompetencies[i].planned_questions], n)
  IN [competencies |-> plannedCompetencies,
      total_planned_questions |-> actualTotal,
      estimated_duration_minutes |-> actualTotal * 4]

generateQuestionPlan(jdData) == QuestionPlanFor(jdData, MaxQuestions)

NoPlan == [called |-> FALSE, input |-> <<>>, target |-> 0, plan |-> QuestionPlanFor(<<>>, 0)]

initializeInterviewState(questionPlan) ==
  LET n == Len(questionPlan.competencies)
      names == {questionPlan.competencies[i].name : i \in 1..n}
      firstCompetency == IF n > 0 THEN questionPlan.competencies[1].name ELSE ""
  IN [competencies |->
        [c \in names |->
           [status |-> IF c = firstCompetency THEN "in_progress" ELSE "pending",
            questions_asked |-> 0,
            current_depth |-> 0]],
      total_questions |-> 0,
      estimated_remaining |-> questionPlan.total_planned_questions,
      current_competency |-> firstCompetency]

(* ------------------------------ Gateway ------------------------------- *)
\* config.ollama.maxRetries (default 3): attempts of generateCompletion
MaxRetries == 3

\* attempts of generateJSON ("for (let attempt = 0; attempt < 3; attempt++)")
JSONAttempts == 3

\* phase: "idle" before the call, "running", "returned" or "thrown"
\* attempt / completionAttempt: the loop variables of generateJSON and of the
\* generateCompletion call it is in
\* lastError: "" or what generateJSON caught last, "completion" (the Error
\* generateCompletion throws after its attempts) or "syntax" (JSON.parse)
\* errorName: the name of the error generateJSON threw
\* payload: "" or what generateJSON returned, an object of the expected
\* shape ("valid") or another JSON value ("mismatched")
NoGateway ==
  [phase |-> "idle", attempt |-> 0, completionAttempt |-> 0,
   backendCalls |-> 0, transportFailures |-> 0, parseFailures |-> 0,
   lastError |-> "", errorName |-> "", payload |-> ""]

(* ------------------------ Response evaluation ------------------------- *)
Min(a, b) == IF a <= b THEN a ELSE b

Dimensions == {"relevance", "depth", "accuracy", "examples", "communication"}

\* getMockEvaluation(answer); lengthClass is 2 for an answer of up to 100
\* characters, 3 for one of up to 200 and 4 for a longer one
getMockEvaluation(lengthClass) ==
  LET baseScore == lengthClass * 10 IN
  [relevance |-> baseScore,
   depth |-> baseScore,
   accuracy |-> baseScore,
   examples |-> Max(10, baseScore - 10),
   communication |-> baseScore,
   overall_score |-> baseScore,
   suggested_follow_up |-> IF baseScore <= 20 THEN "clarify"
                           ELSE IF baseScore = 30 THEN "probe" ELSE "none"]

\* evaluateResponse: mock is config.dev.mockAiServices; generated is the
\* object generateJSON returned, lengthClass the class of the answer's length
evaluateResponse(mock, generated, lengthClass) ==
  IF mock
    THEN getMockEvaluation(lengthClass)
    ELSE [generated EXCEPT !.overall_score = Max(10, Min(50, @))]

NoEvaluation == [called |-> FALSE, mock |-> FALSE, result |-> getMockEvaluation(2)]

(* ------------------------- Adaptive logic ----------------------------- *)
\* determineNextAction asking for a clarification whatever the depth
determineNextAction_nodepth(score, suggested, currentDepth, maxDepth) ==
  IF score >= 40
    THEN [action |-> "next_question", followUpType |-> "none"]
  ELSE IF score <= 20
    THEN [action |-> "follow_up", followUpType |-> "clarify"]
  ELSE IF score = 30 /\ currentDepth < maxDepth /\ suggested = "probe"
    THEN [action |-> "follow_up", followUpType |-> "probe"]
  ELSE [action |-> "next_question", followUpType |-> "none"]

\* determineNextAction with the weak-answer threshold at "below 3"
determineNextAction_below3(score, suggested, currentDepth, maxDepth) ==
  IF score >= 40 \/ currentDepth >= maxDepth
    THEN [action |-> "next_question", followUpType |-> "none"]
  ELSE IF score < 30 /\ currentDepth < maxDepth
    THEN [action |-> "follow_up", followUpType |-> "clarify"]
  ELSE IF score = 30 /\ currentDepth < maxDepth /\ suggested = "probe"
    THEN [action |-> "follow_up", followUpType |-> "probe"]
  ELSE [action |-> "next_question", followUpType |-> "none"]

\* score in tenths: 40 is 4, 20 is 2, 30 is 3
determineNextAction(score, suggested, currentDepth, maxDepth) ==
  IF score >= 40 \/ currentDepth >= maxDepth
    THEN [action |-> "next_question", followUpType |-> "none"]
  ELSE IF score <= 20 /\ currentDepth < maxDepth
    THEN [action |-> "follow_up", followUpType |-> "clarify"]
  ELSE IF score = 30 /\ currentDepth < maxDepth /\ suggested = "probe"
    THEN [action |-> "follow_up", followUpType |-> "probe"]
  ELSE [action |-> "next_question", followUpType |-> "none"]

NoDecision ==
  [called |-> FALSE, score |-> 0, suggested |-> "none", depth |-> 0, maxDepth |-> 0,
   action |-> "", followUpType |-> ""]

(* ------------------------------ mock mode ----------------------------- *)
\* the keys of the questions table of getMockQuestion
MockCategories == {"Frontend", "Backend", "DevOps", "Soft Skills"}

\* a question text of the mock tables is named by its list and its index
MockText(list, index) == [list |-> list, index |-> index]

\* getMockQuestion indexing its list with the id the next Question row gets
getMockQuestion_byId(competency, questionNumber) ==
  [question_text |->
     MockText(IF competency.name \in MockCategories THEN competency.name
              ELSE "Backend",
              nextQuestionId % 2),
   competency |-> competency.name]

\* questions[competency.name] || questions['Backend'], each list of two texts,
\* indexed with questionNumber % categoryQuestions.length
getMockQuestion(competency, questionNumber) ==
  [question_text |->
     MockText(IF competency.name \in MockCategories THEN competency.name
              ELSE "Backend",
              questionNumber % 2),
   competency |-> competency.name]

\* clarifyQuestions or probeQuestions, three texts each, indexed with
\* depth % questions.length
getMockFollowUp(competency, followUpType, depth) ==
  [question_text |->
     MockText(IF followUpType = "clarify" THEN "clarifyQuestions"
              ELSE "probeQuestions",
              depth % 3),
   competency |-> competency]

\* generateQuestion: generated is the object generateJSON returned
generateQuestion(mockAiServices, generated, competency, questionNumber) ==
  IF mockAiServices
    THEN getMockQuestion(competency, questionNumber)
    ELSE generated

\* generateFollowUp: generated is the object generateJSON returned
generateFollowUp(mockAiServices, generated, competency, followUpType, depth) ==
  IF mockAiServices
    THEN getMockFollowUp(competency, followUpType, depth)
    ELSE generated

\* the generateJSON calls that n calls of generateQuestion, generateFollowUp
\* or evaluateResponse make
GenerateJSONCalls(mockAiServices, n) == IF mockAiServices THEN 0 ELSE n

\* the nextQuestion of a result when the call created no Question
NoQuestion == [text |-> MockText("", 0), competency |-> "", depth |-> 0]

\* run: 0 before the first run, then the run that is going on
\* inputs: the length classes of the answers of the first run
\* outputs: what the start and the processAnswer calls of the first run
\*   returned, outputs[1] for the start and outputs[k + 1] for answer k
\* pos: the calls of the second run so far
\* same: every call of the second run returned what the first run's did
\* backendCalls: generateJSON calls made by the two runs
NoRuns ==
  [mockAiServices |-> TRUE, run |-> 0, inputs |-> <<>>, outputs |-> <<>>,
   pos |-> 0, same |-> TRUE, backendCalls |-> 0]

(* ------------------------- generateCompletion ------------------------- *)
\* Backoff waiting one second after every failed attempt
Backoff_constant(attempt) == 1

\* setTimeout(resolve, Math.pow(2, attempt) * 1000), in seconds
Backoff(attempt) == 2 ^ attempt

\* phase: "idle" before the call, "running", "returned" or "thrown"
\* attempt: the loop variable
\* errors: what the catch block logged, one entry for each failed attempt
\* waits: the waits made so far, in seconds
\* fetches: the fetch calls made so far
NoCompletion ==
  [phase |-> "idle", attempt |-> 0, errors |-> <<>>, waits |-> <<>>, fetches |-> 0]

(* -------------------------- calls in flight --------------------------- *)
\* the requests the server can be handling at the same time
Requests == {1, 2}

\* pc: "idle", "evaluating" (awaiting evaluateResponse) or "generating"
\* (awaiting generateFollowUp / generateQuestion)
\* id, questionId, state: the call's interview, question and its copy of
\* interview_state; questionsAsked, newQuestion: the count it made and the
\* row it is about to create
\* openAtStart (history): the question had no Answer when the call read it
Idle ==
  [pc |-> "idle", id |-> 0, questionId |-> 0,
   state |-> initializeInterviewState(generateQuestionPlan(<<>>)),
   questionsAsked |-> 0,
   newQuestion |-> [interview_id |-> 0, parent_id |-> 0, sequence_num |-> 0,
                    competency |-> "", depth_level |-> 0],
   openAtStart |-> FALSE]

(* ------------------------------ tables -------------------------------- *)
QuestionsOf(id) == {q \in DOMAIN questions : questions[q].interview_id = id}

\* Answer.count({ where: { question_id: q } })
AnswersOf(q) == IF q \in DOMAIN answers THEN answers[q] ELSE 0

RECURSIVE SumCounts(_, _)
SumCounts(f, S) ==
  IF S = {} THEN 0
  ELSE LET q == CHOOSE x \in S : TRUE IN f[q] + SumCounts(f, S \ {q})

\* Answer.count()
AnswerRows == SumCounts(answers, DOMAIN answers)

\* a Question lacking an Answer
IsOpen(q) == AnswersOf(q) = 0

OpenQuestions(id) == {q \in QuestionsOf(id) : IsOpen(q)}

\* Interview.findOne({ order: [['created_at', 'DESC']] }); 0 when there is none
LatestInterview ==
  IF DOMAIN interviews = {} THEN 0
  ELSE CHOOSE i \in DOMAIN interviews : \A j \in DOMAIN interviews : j <= i

\* Model.update / Model.create on a table keyed by id
Put(table, id, row) == [k \in DOMAIN table \cup {id} |-> IF k = id THEN row ELSE table[k]]

\* ON DELETE CASCADE from interviews to questions to answers
QuestionsWithout(id) ==
  [q \in {k \in DOMAIN questions : questions[k].interview_id # id} |-> questions[q]]

AnswersWithout(id) ==
  [q \in DOMAIN answers \ QuestionsOf(id) |-> answers[q]]

InterviewsWithout(id) == [i \in DOMAIN interviews \ {id} |-> interviews[i]]

Thrown(op, message) ==
  [NoRet EXCEPT !.op = op, !.ok = FALSE, !.error = message]

\* the state of a session whose job description is one of lists
InitWith(lists) ==
  /\ jd \in lists
  /\ interviews = [i \in {} |-> 0]
  /\ questions = [q \in {} |-> 0]
  /\ answers = [q \in {} |-> 0]
  /\ sessionStatus = "ready"
  /\ nextInterviewId = 1
  /\ nextQuestionId = 1
  /\ now = 0
  /\ ret = NoRet
  /\ cleanTurns = -1
  /\ decision = NoDecision
  /\ planned = NoPlan
  /\ evaluated = NoEvaluation
  /\ gateway = NoGateway
  /\ flight = [p \in Requests |-> Idle]
  /\ runs = NoRuns
  /\ completion = NoCompletion
  /\ avgScore = [c \in {jd[i].name : i \in 1..Len(jd)} |-> [num |-> 0, den |-> 1]]
  /\ answerScores = [c \in {jd[i].name : i \in 1..Len(jd)} |-> [count |-> 0, sum |-> 0]]

Init == InitWith(JDInputs)

(* --------------------------- startInterview --------------------------- *)
\* generated: GatewayFailure, or the competency value of the generated question
StartCall(generated) ==
  LET existing == IF DOMAIN interviews = {} THEN 0
                  ELSE CHOOSE i \in DOMAIN interviews : TRUE
      questionPlan == generateQuestionPlan(jd)
      interviewState == initializeInterviewState(questionPlan)
      id == nextInterviewId
      interview == [status |-> "in_progress",
                    question_plan |-> questionPlan,
                    interview_state |-> interviewState,
                    started_at |-> now,
                    completed_at |-> -1]
      kept == IF existing = 0 THEN interviews ELSE InterviewsWithout(existing)
      keptQuestions == IF existing = 0 THEN questions ELSE QuestionsWithout(existing)
      keptAnswers == IF existing = 0 THEN answers ELSE AnswersWithout(existing)
      \* competency_areas[0] is undefined for an empty list: building the
      \* prompt (or the mock question) throws
      failed == Len(jd) = 0 \/ generated = GatewayFailure
  IN /\ interviews' = Put(kept, id, interview)
     /\ nextInterviewId' = nextInterviewId + 1
     /\ answers' = keptAnswers
     /\ IF failed
          THEN /\ questions' = keptQuestions
               /\ UNCHANGED <<sessionStatus, nextQuestionId>>
               /\ ret' = Thrown("startInterview", "generation failed")
               /\ cleanTurns' = -1
          ELSE /\ questions' = Put(keptQuestions, nextQuestionId,
                                   [interview_id |-> id,
                                    parent_id |-> 0,
                                    sequence_num |-> 1,
                                    competency |-> generated,
                                    depth_level |-> 0])
               /\ nextQuestionId' = nextQuestionId + 1
               /\ sessionStatus' = "interviewing"
               /\ ret' = [NoRet EXCEPT !.op = "startInterview"]
               /\ cleanTurns' = 0
     /\ UNCHANGED <<jd, now, decision, planned, evaluated, gateway, flight,
                    scoring, completion>>

StartInterview(generated) ==
  /\ StartCall(generated)
  /\ UNCHANGED runs

(* ---------------------------- processAnswer --------------------------- *)
\* compState.questions_asked += 1 (the running avg_score is kept in avgScore)
UpdateStats(compState, score) ==
  [compState EXCEPT !.questions_asked = @ + 1]

\* Object.values(state.competencies).every(c => c.status === 'completed')
AllCompleted(state) ==
  \A c \in DOMAIN state.competencies : state.competencies[c].status = "completed"

\* ShouldEnd comparing with > instead of >=
ShouldEnd_gt(questionsAsked, state) ==
  questionsAsked > MaxQuestions \/ AllCompleted(state)

ShouldEnd(questionsAsked, state) ==
  questionsAsked >= MaxQuestions \/ AllCompleted(state)

\* QuestionsAsked counting the root questions only
QuestionsAsked_roots(id) ==
  Cardinality({q \in QuestionsOf(id) : questions[q].depth_level = 0})

\* Question.count({ where: { interview_id } })
QuestionsAsked(id) == Cardinality(QuestionsOf(id))

\* plan.competencies.findIndex(c => c.name === name), 1-based, 0 when absent
FindIndex(plan, name) ==
  IF \E i \in 1..Len(plan.competencies) : plan.competencies[i].name = name
    THEN CHOOSE i \in 1..Len(plan.competencies) : plan.competencies[i].name = name
    ELSE 0

\* interview.update({ status: 'completed', interview_state, completed_at })
Completed(interview, state) ==
  [interview EXCEPT !.status = "completed",
                    !.interview_state = state,
                    !.completed_at = now]

\* state.estimated_remaining = Math.max(0, state.estimated_remaining - 1)
Remaining(state) ==
  [state EXCEPT !.estimated_remaining = Max(0, @ - 1)]

\* FollowUpQuestion numbered with the count of the questions, not the count
\* plus one
FollowUpQuestion_samenum(id, questionId, questionsAsked) ==
  [interview_id |-> id,
   parent_id |-> questionId,
   sequence_num |-> questionsAsked,
   competency |-> questions[questionId].competency,
   depth_level |-> questions[questionId].depth_level + 1]

\* FollowUpQuestion keeping the depth of the answered question
FollowUpQuestion_flat(id, questionId, questionsAsked) ==
  [interview_id |-> id,
   parent_id |-> questionId,
   sequence_num |-> questionsAsked + 1,
   competency |-> questions[questionId].competency,
   depth_level |-> questions[questionId].depth_level]

\* Question.create({ interview_id, parent_id: questionId, sequence_num,
\*                   competency: question.competency,
\*                   depth_level: question.depth_level + 1 })
FollowUpQuestion(id, questionId, questionsAsked) ==
  [interview_id |-> id,
   parent_id |-> questionId,
   sequence_num |-> questionsAsked + 1,
   competency |-> questions[questionId].competency,
   depth_level |-> questions[questionId].depth_level + 1]

\* the part of processAnswer after the Answer row is stored
\* evaluation: the result of evaluateResponse; generated: the outcome of the
\* generateFollowUp / generateQuestion call, when the turn makes one
ContinueTurn(id, questionId, evaluation, generated) ==
  LET interview == interviews[id]
      question == questions[questionId]
      score == evaluation.overall_score
      hasComp == question.competency \in DOMAIN interview.interview_state.competencies
      counted == [interview.interview_state EXCEPT !.total_questions = @ + 1]
      state == IF hasComp
                 THEN [counted EXCEPT !.competencies[question.competency] =
                                         UpdateStats(@, score)]
                 ELSE counted
      nextAction == determineNextAction(score, evaluation.suggested_follow_up,
                                        question.depth_level, MaxFollowUpDepth)
      questionsAsked == QuestionsAsked(id)
      plan == interview.question_plan
      currentCompIdx == FindIndex(plan, question.competency)
      questionsInComp ==
        Cardinality({q \in QuestionsOf(id) :
                       /\ questions[q].competency = question.competency
                       /\ questions[q].depth_level = 0})
      sameCompetency ==
        /\ currentCompIdx # 0
        /\ questionsInComp < plan.competencies[currentCompIdx].planned_questions
      closed == IF hasComp
                  THEN [state EXCEPT !.competencies[question.competency].status = "completed",
                                     !.competencies[question.competency].current_depth = 0]
                  ELSE state
      nextCompIdx == currentCompIdx + 1
      nextName == plan.competencies[nextCompIdx].name
      moved == [closed EXCEPT !.current_competency = nextName,
                              !.competencies[nextName].status = "in_progress"]
      done(isComplete) ==
        [NoRet EXCEPT !.op = "processAnswer", !.isComplete = isComplete]
      failed == Thrown("processAnswer", "generation failed")
  IN IF ShouldEnd(questionsAsked, state)
       THEN /\ interviews' = Put(interviews, id, Completed(interview, state))
            /\ sessionStatus' = "completed"
            /\ ret' = done(TRUE)
            /\ UNCHANGED <<questions, nextQuestionId>>
     ELSE IF nextAction.action = "follow_up" /\ nextAction.followUpType # "none"
       THEN IF generated = GatewayFailure
              THEN /\ ret' = failed
                   /\ UNCHANGED <<interviews, questions, nextQuestionId, sessionStatus>>
              ELSE /\ questions' = Put(questions, nextQuestionId,
                                       FollowUpQuestion(id, questionId, questionsAsked))
                   /\ nextQuestionId' = nextQuestionId + 1
                   /\ interviews' = Put(interviews, id,
                        [interview EXCEPT !.interview_state =
                           Remaining(IF hasComp
                                       THEN [state EXCEPT
                                               !.competencies[question.competency].current_depth =
                                                  question.depth_level + 1]
                                       ELSE state)])
                   /\ ret' = done(FALSE)
                   /\ UNCHANGED sessionStatus
     ELSE IF ~sameCompetency /\ nextCompIdx > Len(plan.competencies)
       THEN \* no more competencies: the session status is not touched here
            /\ interviews' = Put(interviews, id, Completed(interview, closed))
            /\ ret' = done(TRUE)
            /\ UNCHANGED <<questions, nextQuestionId, sessionStatus>>
     ELSE IF generated = GatewayFailure
       THEN /\ ret' = failed
            /\ UNCHANGED <<interviews, questions, nextQuestionId, sessionStatus>>
     ELSE /\ questions' = Put(questions, nextQuestionId,
                              [interview_id |-> id,
                               parent_id |-> 0,
                               sequence_num |-> questionsAsked + 1,
                               competency |-> IF sameCompetency THEN question.competency
                                              ELSE nextName,
                               depth_level |-> 0])
          /\ nextQuestionId' = nextQuestionId + 1
          /\ interviews' = Put(interviews, id,
               [interview EXCEPT !.interview_state =
                  Remaining(IF sameCompetency THEN state ELSE moved)])
          /\ ret' = done(FALSE)
          /\ UNCHANGED sessionStatus

\* ActiveInterviews without the status filter
ActiveInterviews_any == DOMAIN interviews

\* Interview.findOne({ where: { session_id, status: 'in_progress' } })
ActiveInterviews == {i \in DOMAIN interviews : interviews[i].status = "in_progress"}

\* Question.findByPk(questionId) exists and belongs to the interview
QuestionFound(id, questionId) ==
  /\ questionId \in DOMAIN questions
  /\ questions[questionId].interview_id = id

\* processAnswer but for the avg_score it computes
AnswerTurn(questionId, evaluation, generated) ==
  /\ AnswerRows < MaxAnswers
  /\ UNCHANGED <<jd, nextInterviewId, now, decision, planned, evaluated, gateway,
                 flight, completion>>
  /\ IF ActiveInterviews = {}
       THEN /\ ret' = Thrown("processAnswer", "No active interview found")
            /\ cleanTurns' = -1
            /\ UNCHANGED <<interviews, questions, answers, sessionStatus, nextQuestionId>>
     ELSE LET id == CHOOSE i \in ActiveInterviews : TRUE IN
       IF ~QuestionFound(id, questionId)
         THEN /\ ret' = Thrown("processAnswer", "Question not found")
              /\ cleanTurns' = -1
              /\ UNCHANGED <<interviews, questions, answers, sessionStatus, nextQuestionId>>
       ELSE IF ~evaluation.ok
         THEN /\ ret' = Thrown("processAnswer", "generation failed")
              /\ cleanTurns' = -1
              /\ UNCHANGED <<interviews, questions, answers, sessionStatus, nextQuestionId>>
       ELSE /\ answers' = Put(answers, questionId, AnswersOf(questionId) + 1)
            /\ cleanTurns' = IF /\ cleanTurns >= 0
                                /\ IsOpen(questionId)
                                /\ generated # GatewayFailure
                               THEN cleanTurns + 1
                               ELSE -1
            /\ ContinueTurn(id, questionId, evaluation, generated)

ProcessAnswer(questionId, evaluation, generated) ==
  /\ AnswerTurn(questionId, evaluation, generated)
  /\ UNCHANGED <<scoring, runs>>

\* processAnswer with the score columns: the Answer row carries
\* evaluation.overall_score; compState.avg_score =
\* (avg_score * (questions_asked - 1) + overall_score) / questions_asked is
\* stored when the call reaches an interview.update
ScoredAnswer(questionId, evaluation, generated) ==
  /\ AnswerTurn(questionId, evaluation, generated)
  /\ UNCHANGED runs
  /\ LET stored == answers' # answers
         written == interviews' # interviews
         c == questions[questionId].competency
         tracked == stored /\ c \in DOMAIN avgScore
         k == interviews[LatestInterview].interview_state.competencies[c].questions_asked + 1
         score == evaluation.overall_score
     IN /\ answerScores' =
             IF tracked
               THEN [answerScores EXCEPT ![c] = [count |-> @.count + 1,
                                                sum |-> @.sum + score]]
               ELSE answerScores
        /\ avgScore' =
             IF tracked /\ written
               THEN [avgScore EXCEPT ![c] = [num |-> @.num * (k - 1) + score * @.den,
                                            den |-> @.den * k]]
               ELSE avgScore

(* ---------------- processAnswer, one await at a time ------------------ *)
\* what a processAnswer call does after its evaluation, from its own copy of
\* interview_state (local) and the tables as they are now: path is "end"
\* (shouldEnd), "follow_up", "last" (no more competencies) or "next"; state
\* is the interview_state it will write, newQuestion the row it will create
TurnOutcome(id, questionId, local, evaluation) ==
  LET interview == interviews[id]
      question == questions[questionId]
      score == evaluation.overall_score
      hasComp == question.competency \in DOMAIN local.competencies
      counted == [local EXCEPT !.total_questions = @ + 1]
      state == IF hasComp
                 THEN [counted EXCEPT !.competencies[question.competency] =
                                         UpdateStats(@, score)]
                 ELSE counted
      nextAction == determineNextAction(score, evaluation.suggested_follow_up,
                                        question.depth_level, MaxFollowUpDepth)
      questionsAsked == QuestionsAsked(id)
      plan == interview.question_plan
      currentCompIdx == FindIndex(plan, question.competency)
      questionsInComp ==
        Cardinality({q \in QuestionsOf(id) :
                       /\ questions[q].competency = question.competency
                       /\ questions[q].depth_level = 0})
      sameCompetency ==
        /\ currentCompIdx # 0
        /\ questionsInComp < plan.competencies[currentCompIdx].planned_questions
      closed == IF hasComp
                  THEN [state EXCEPT !.competencies[question.competency].status = "completed",
                                     !.competencies[question.competency].current_depth = 0]
                  ELSE state
      nextCompIdx == currentCompIdx + 1
      nextName == plan.competencies[nextCompIdx].name
      moved == [closed EXCEPT !.current_competency = nextName,
                              !.competencies[nextName].status = "in_progress"]
      row(parent, competency, depth) ==
        [interview_id |-> id, parent_id |-> parent,
         sequence_num |-> questionsAsked + 1,
         competency |-> competency, depth_level |-> depth]
      out(path, written, newQuestion) ==
        [path |-> path, state |-> written, questionsAsked |-> questionsAsked,
         newQuestion |-> newQuestion]
  IN IF ShouldEnd(questionsAsked, state)
       THEN out("end", state, Idle.newQuestion)
     ELSE IF nextAction.action = "follow_up" /\ nextAction.followUpType # "none"
       THEN out("follow_up",
                IF hasComp
                  THEN [state EXCEPT !.competencies[question.competency].current_depth =
                                        question.depth_level + 1]
                  ELSE state,
                row(questionId, question.competency, question.depth_level + 1))
     ELSE IF ~sameCompetency /\ nextCompIdx > Len(plan.competencies)
       THEN out("last", closed, Idle.newQuestion)
     ELSE IF sameCompetency
       THEN out("next", state, row(0, question.competency, 0))
     ELSE out("next", moved, row(0, nextName, 0))

\* what processAnswer returns
Returned(isComplete) ==
  [NoRet EXCEPT !.op = "processAnswer", !.isComplete = isComplete]

\* request p: from the call to the await of evaluateResponse
BeginAnswer(p, questionId) ==
  /\ flight[p].pc = "idle"
  /\ AnswerRows + Cardinality({r \in Requests : flight[r].pc = "evaluating"}) < MaxAnswers
  /\ cleanTurns' = -1
  /\ UNCHANGED <<jd, interviews, questions, answers, sessionStatus, nextInterviewId,
                 nextQuestionId, now, decision, planned, evaluated, gateway, scoring, runs, completion>>
  /\ IF ActiveInterviews = {}
       THEN /\ ret' = Thrown("processAnswer", "No active interview found")
            /\ UNCHANGED flight
     ELSE LET id == CHOOSE i \in ActiveInterviews : TRUE IN
       IF ~QuestionFound(id, questionId)
         THEN /\ ret' = Thrown("processAnswer", "Question not found")
              /\ UNCHANGED flight
         ELSE /\ flight' = [flight EXCEPT ![p] =
                              [Idle EXCEPT !.pc = "evaluating",
                                           !.id = id,
                                           !.questionId = questionId,
                                           !.state = interviews[id].interview_state,
                                           !.openAtStart = IsOpen(questionId)]]
              /\ UNCHANGED ret

\* request p: evaluateResponse settles; Answer.create, the statistics, the
\* counts and, when the interview ends here, interview.update
EvaluationSettles(p, evaluation) ==
  /\ flight[p].pc = "evaluating"
  /\ cleanTurns' = -1
  /\ UNCHANGED <<jd, questions, nextInterviewId, nextQuestionId, now,
                 decision, planned, evaluated, gateway, scoring, runs, completion>>
  /\ IF ~evaluation.ok
       THEN /\ ret' = Thrown("processAnswer", "generation failed")
            /\ flight' = [flight EXCEPT ![p] = Idle]
            /\ UNCHANGED <<interviews, answers, sessionStatus>>
     ELSE LET f == flight[p]
              out == TurnOutcome(f.id, f.questionId, f.state, evaluation)
          IN /\ answers' = Put(answers, f.questionId, AnswersOf(f.questionId) + 1)
             /\ IF out.path \in {"end", "last"}
                  THEN /\ interviews' = Put(interviews, f.id,
                                            Completed(interviews[f.id], out.state))
                       /\ sessionStatus' = IF out.path = "end" THEN "completed"
                                           ELSE sessionStatus
                       /\ ret' = Returned(TRUE)
                       /\ flight' = [flight EXCEPT ![p] = Idle]
                  ELSE /\ flight' = [flight EXCEPT ![p] =
                                       [f EXCEPT !.pc = "generating",
                                                 !.state = out.state,
                                                 !.questionsAsked = out.questionsAsked,
                                                 !.newQuestion = out.newQuestion]]
                       /\ UNCHANGED <<interviews, sessionStatus, ret>>

\* request p: generateFollowUp / generateQuestion settles; Question.create
\* and interview.update({ interview_state })
GenerationSettles(p, generated) ==
  /\ flight[p].pc = "generating"
  /\ cleanTurns' = -1
  /\ flight' = [flight EXCEPT ![p] = Idle]
  /\ UNCHANGED <<jd, answers, sessionStatus, nextInterviewId, now,
                 decision, planned, evaluated, gateway, scoring, runs, completion>>
  /\ IF generated = GatewayFailure
       THEN /\ ret' = Thrown("processAnswer", "generation failed")
            /\ UNCHANGED <<interviews, questions, nextQuestionId>>
     ELSE LET f == flight[p] IN
          /\ questions' = Put(questions, nextQuestionId, f.newQuestion)
          /\ nextQuestionId' = nextQuestionId + 1
          /\ interviews' = Put(interviews, f.id,
                               [interviews[f.id] EXCEPT !.interview_state =
                                                           Remaining(f.state)])
          /\ ret' = Returned(FALSE)

(* ---------------------- POST /api/interview/finish -------------------- *)
FinishInterview ==
  LET id == LatestInterview IN
  /\ UNCHANGED <<jd, questions, answers, nextInterviewId, nextQuestionId, now, decision, calls>>
  /\ cleanTurns' = -1
  /\ IF id = 0
       THEN /\ ret' = Thrown("finishInterview", "NO_INTERVIEW")
            /\ UNCHANGED <<interviews, sessionStatus>>
       ELSE LET interview == interviews[id]
                startedAt == interview.started_at
                completedAt == now
                \* Math.round(durationMs / 1000 / 60), the clock being in half minutes
                durationMinutes == Round(completedAt - startedAt, 2)
                state == interview.interview_state
                plan == interview.question_plan
            IN /\ IF interview.status # "completed"
                    THEN /\ interviews' = Put(interviews, id,
                                              [interview EXCEPT !.status = "completed",
                                                                !.completed_at = completedAt])
                         /\ sessionStatus' = "completed"
                    ELSE UNCHANGED <<interviews, sessionStatus>>
               /\ ret' = [NoRet EXCEPT
                            !.op = "finishInterview",
                            !.status = "completed",
                            !.duration_minutes = durationMinutes,
                            \* state.total_questions || plan.total_planned_questions
                            !.total_questions =
                               IF state.total_questions # 0 THEN state.total_questions
                               ELSE plan.total_planned_questions]

(* -------------------------- getInterviewState ------------------------- *)
\* Question.findAll({ order: [['sequence_num', 'DESC']], limit: 1 })
LatestQuestions(id) ==
  {q \in QuestionsOf(id) :
     \A r \in QuestionsOf(id) : questions[r].sequence_num <= questions[q].sequence_num}

GetInterviewState ==
  LET id == LatestInterview IN
  /\ UNCHANGED <<jd, interviews, questions, answers, sessionStatus,
                 nextInterviewId, nextQuestionId, now, cleanTurns, decision, calls>>
  /\ IF id = 0
       THEN ret' = [NoRet EXCEPT !.op = "getInterviewState", !.status = "null"]
       ELSE \E latestQuestion \in LatestQuestions(id) \cup {0} :
              /\ latestQuestion = 0 <=> LatestQuestions(id) = {}
              /\ LET state == interviews[id].interview_state
                     current == IF latestQuestion # 0 /\ IsOpen(latestQuestion)
                                  THEN latestQuestion ELSE 0
                 IN ret' = [NoRet EXCEPT
                              !.op = "getInterviewState",
                              !.status = interviews[id].status,
                              !.currentQuestion = current,
                              !.total_questions =
                                 state.total_questions + (IF current # 0 THEN 1 ELSE 0)]

(* ------------------------------- clock -------------------------------- *)
Tick ==
  /\ now < MaxTime
  /\ now' = now + 1
  /\ UNCHANGED <<jd, interviews, questions, answers, sessionStatus,
                 nextInterviewId, nextQuestionId, ret, cleanTurns, decision, calls>>

\* competency values a generated first question can carry
GeneratedCompetencies == {jd[i].name : i \in 1..Len(jd)} \cup {OtherCompetency}

\* question ids a caller can send: the stored ones and one that is not stored
QuestionIds == DOMAIN questions \cup {nextQuestionId}

\* outcomes of the two generation calls of a turn: the evaluation, and the
\* next question or follow-up when the evaluation succeeded
ProcessAnswerInputs ==
  (Evaluations \X {"generated", GatewayFailure})
    \cup {<<EvaluationFailure, GatewayFailure>>}

\* the outcomes a call on questionId can meet: a call rejected before the
\* evaluation makes no generation call
InputsFor(questionId) ==
  IF /\ ActiveInterviews # {}
     /\ QuestionFound(CHOOSE i \in ActiveInterviews : TRUE, questionId)
    THEN ProcessAnswerInputs
    ELSE {<<EvaluationFailure, GatewayFailure>>}

\* the engine's operations, one call at a time, with up to MaxStarts (re)starts
Next ==
  \/ /\ nextInterviewId <= MaxStarts
     /\ \E generated \in GeneratedCompetencies \cup {GatewayFailure} :
          StartInterview(generated)
  \/ \E questionId \in QuestionIds :
       \E in \in InputsFor(questionId) :
         ProcessAnswer(questionId, in[1], in[2])
  \/ FinishInterview
  \/ GetInterviewState

Spec == Init /\ [][Next]_vars

\* one interview of the session, with the wall clock advancing between calls
NextClock ==
  \/ /\ nextInterviewId = 1
     /\ \E generated \in GeneratedCompetencies \cup {GatewayFailure} :
          StartInterview(generated)
  \/ \E questionId \in QuestionIds :
       \E in \in InputsFor(questionId) :
         ProcessAnswer(questionId, in[1], in[2])
  \/ FinishInterview
  \/ GetInterviewState
  \/ Tick

SpecClock == Init /\ [][NextClock]_vars

(* ------------------ determineNextAction on its own -------------------- *)
\* largest maxDepth the decision function is called with
MaxDecideDepth == 3

\* the boundary scores (tenths): 1, 1.9, 2, 2.1, 3, 3.9, 4, 5
BoundaryScores == {10, 19, 20, 21, 30, 39, 40, 50}

Decide(score, suggested, depth, maxDepth) ==
  /\ decision' = [called |-> TRUE, score |-> score, suggested |-> suggested,
                  depth |-> depth, maxDepth |-> maxDepth,
                  action |-> determineNextAction(score, suggested, depth, maxDepth).action,
                  followUpType |->
                    determineNextAction(score, suggested, depth, maxDepth).followUpType]
  /\ UNCHANGED <<jd, interviews, questions, answers, sessionStatus,
                 nextInterviewId, nextQuestionId, now, ret, cleanTurns, calls>>

NextDecide ==
  \E score \in BoundaryScores, suggested \in {"clarify", "probe", "none"},
     maxDepth \in 1..MaxDecideDepth :
    \E depth \in {0, maxDepth - 1, maxDepth} :
      Decide(score, suggested, depth, maxDepth)

SpecDecide == Init /\ [][NextDecide]_vars

(* ------------------ generateQuestionPlan on its own ------------------- *)
\* longest competency list, largest weight (in units of the smallest one)
\* and largest maxQuestions the plan builder is called with
MaxAreas == 3
MaxWeight == 3
MaxTarget == 5

AreaNames == <<"A", "B", "C", "D", "E">>

\* the competency lists of n areas with weights 0..MaxWeight
AreaLists(n) ==
  {[i \in 1..n |-> Area(AreaNames[i], w[i])] : w \in [1..n -> 0..MaxWeight]}

BuildPlan(jdData, targetTotal) ==
  /\ ~planned.called
  /\ planned' = [called |-> TRUE, input |-> jdData, target |-> targetTotal,
                 plan |-> QuestionPlanFor(jdData, targetTotal)]
  /\ UNCHANGED <<engine, decision, evaluated, gateway, flight, scoring, runs, completion>>

NextPlan ==
  \E n \in 1..MaxAreas, targetTotal \in 1..MaxTarget :
    \E jdData \in AreaLists(n) : BuildPlan(jdData, targetTotal)

SpecPlan == Init /\ [][NextPlan]_vars

(* -------------------- evaluateResponse on its own --------------------- *)
\* dimension scores and overall scores a generated evaluation carries
\* (tenths); 0 and 60 are outside the 1..5 scale
DimensionScores == {0, 10, 30, 60}
SuppliedOverall == {0, 10, 26, 30, 50, 60}

GeneratedEvaluations ==
  {[relevance |-> d["relevance"], depth |-> d["depth"], accuracy |-> d["accuracy"],
    examples |-> d["examples"], communication |-> d["communication"],
    overall_score |-> o, suggested_follow_up |-> "none"] :
     d \in [Dimensions -> DimensionScores], o \in SuppliedOverall}

Evaluate(mock, generated, lengthClass) ==
  /\ ~evaluated.called
  /\ evaluated' = [called |-> TRUE, mock |-> mock,
                   result |-> evaluateResponse(mock, generated, lengthClass)]
  /\ UNCHANGED <<engine, decision, planned, gateway, flight, scoring, runs, completion>>

NextEvaluate ==
  \/ \E lengthClass \in 2..4 : Evaluate(TRUE, getMockEvaluation(2), lengthClass)
  \/ \E generated \in GeneratedEvaluations : Evaluate(FALSE, generated, 2)

SpecEvaluate == Init /\ [][NextEvaluate]_vars

(* ---------------------- generateJSON on its own ----------------------- *)
CallGenerateJSON ==
  /\ gateway.phase = "idle"
  /\ gateway' = [gateway EXCEPT !.phase = "running"]
  /\ UNCHANGED <<engine, decision, planned, evaluated, flight, scoring, runs, completion>>

\* the catch block of generateJSON and the end of its loop
Caught(g, error) ==
  IF g.attempt + 1 < JSONAttempts
    THEN [g EXCEPT !.attempt = @ + 1, !.completionAttempt = 0, !.lastError = error]
    ELSE [g EXCEPT !.attempt = @ + 1, !.completionAttempt = 0, !.lastError = error,
                   !.phase = "thrown", !.errorName = "Error"]

\* one fetch of generateCompletion and what follows it up to the next fetch
\* outcome: "failed" (fetch rejected, timed out or answered with an error
\* status), "malformed" (a response that JSON.parse rejects), "mismatched" (a
\* response that JSON.parse accepts and that lacks a field of the expected
\* type T) or "valid"
BackendCall(outcome) ==
  /\ gateway.phase = "running"
  /\ LET g == [gateway EXCEPT !.backendCalls = @ + 1] IN
     gateway' =
       IF outcome = "failed"
         THEN LET f == [g EXCEPT !.transportFailures = @ + 1] IN
              IF g.completionAttempt + 1 < MaxRetries
                THEN [f EXCEPT !.completionAttempt = @ + 1]
                ELSE Caught(f, "completion")
       ELSE IF outcome = "malformed"
         THEN Caught([g EXCEPT !.parseFailures = @ + 1], "syntax")
       ELSE \* JSON.parse(response) as T: the cast checks nothing
            [g EXCEPT !.phase = "returned", !.payload = outcome]
  /\ UNCHANGED <<engine, decision, planned, evaluated, flight, scoring, runs, completion>>

NextGateway ==
  \/ CallGenerateJSON
  \/ \E outcome \in {"failed", "malformed", "mismatched", "valid"} :
       BackendCall(outcome)

SpecGateway == Init /\ [][NextGateway]_vars

(* -------------------- requests handled concurrently ------------------- *)
\* one interview; the processAnswer calls of the requests interleave at
\* their generation calls, and with the finish handler
NextConcurrent ==
  \/ /\ nextInterviewId = 1
     /\ \E generated \in GeneratedCompetencies \cup {GatewayFailure} :
          StartInterview(generated)
  \/ \E p \in Requests, questionId \in QuestionIds : BeginAnswer(p, questionId)
  \/ \E p \in Requests, evaluation \in Evaluations \cup {EvaluationFailure} :
       EvaluationSettles(p, evaluation)
  \/ \E p \in Requests, generated \in {"generated", GatewayFailure} :
       GenerationSettles(p, generated)
  \/ FinishInterview

SpecConcurrent == Init /\ [][NextConcurrent]_vars

(* ----------------------- the score columns ---------------------------- *)
\* one interview of the session, with the scores of its answers
NextScores ==
  \/ /\ nextInterviewId = 1
     /\ \E generated \in GeneratedCompetencies \cup {GatewayFailure} :
          StartInterview(generated)
  \/ \E questionId \in QuestionIds :
       \E in \in InputsFor(questionId) :
         ScoredAnswer(questionId, in[1], in[2])
  \/ FinishInterview

SpecScores == Init /\ [][NextScores]_vars

(* ============================ properties ============================== *)
\* a processAnswer call on a question of the active interview
TurnOn(questionId, in) ==
  /\ ActiveInterviews # {}
  /\ QuestionFound(CHOOSE i \in ActiveInterviews : TRUE, questionId)
  /\ ProcessAnswer(questionId, in[1], in[2])

\* C1: a processAnswer call on a question of the interview that is not open
\* (it already has an Answer) is rejected and changes no Interview, Question
\* or Answer row.
C1_NonOpenQuestionRejected ==
  [][\A questionId \in QuestionIds, in \in ProcessAnswerInputs :
       (TurnOn(questionId, in) /\ ~IsOpen(questionId))
         => (~ret'.ok /\ UNCHANGED <<interviews, questions, answers>>)]_vars

\* C2: a processAnswer call on the open question that fails because a
\* generation call failed (the evaluation or the next question / follow-up)
\* leaves the question open: no Answer row exists for it.
C2_GatewayFailureKeepsQuestionOpen ==
  [][\A questionId \in QuestionIds, in \in ProcessAnswerInputs :
       (TurnOn(questionId, in) /\ IsOpen(questionId)
          /\ ret'.error = "generation failed")
         => (~ret'.ok /\ IsOpen(questionId)')]_vars

\* C3: the number of Questions of an interview and its total_questions
\* counter never exceed maxQuestions.
C3_QuestionsWithinMax ==
  \A i \in DOMAIN interviews :
    /\ Cardinality(QuestionsOf(i)) <= MaxQuestions
    /\ interviews[i].interview_state.total_questions <= MaxQuestions

\* an interview that used all of its maxQuestions questions
C3_Witness ==
  \E i \in DOMAIN interviews :
    /\ Cardinality(QuestionsOf(i)) = MaxQuestions
    /\ interviews[i].interview_state.total_questions = MaxQuestions
    /\ interviews[i].status = "completed"

\* C4: from a fresh interview, with every answer on the open question and no
\* gateway failure, the interview is still in progress only while fewer than
\* maxQuestions answers were processed, and it completes by a processAnswer
\* call among the first maxQuestions.
C4_CompleteWithinMaxTurns ==
  cleanTurns >= 0 =>
    /\ cleanTurns <= MaxQuestions
    /\ ActiveInterviews # {} => cleanTurns < MaxQuestions
    /\ ActiveInterviews = {} =>
         /\ cleanTurns >= 1
         /\ interviews[LatestInterview].status = "completed"
         /\ interviews[LatestInterview].interview_state.total_questions = cleanTurns

\* a run that needed all maxQuestions turns, the last one returning isComplete
C4_Witness ==
  /\ cleanTurns = MaxQuestions
  /\ ret.op = "processAnswer"
  /\ ret.isComplete

\* C5: every Question has depth_level in 0..maxFollowUpDepth, and a follow-up
\* sits one level below a parent whose depth_level is below maxFollowUpDepth.
C5_DepthWithinMax ==
  \A q \in DOMAIN questions :
    /\ questions[q].depth_level \in 0..MaxFollowUpDepth
    /\ questions[q].parent_id # 0 =>
         /\ questions[q].parent_id \in DOMAIN questions
         /\ questions[questions[q].parent_id].depth_level < MaxFollowUpDepth
         /\ questions[q].depth_level = questions[questions[q].parent_id].depth_level + 1

\* a follow-up at the maximum depth was answered and the interview moved on
\* to a later root question instead of a deeper follow-up
C5_Witness ==
  \E q, r \in DOMAIN questions :
    /\ questions[q].depth_level = MaxFollowUpDepth
    /\ questions[q].parent_id # 0
    /\ ~IsOpen(q)
    /\ questions[r].interview_id = questions[q].interview_id
    /\ questions[r].sequence_num > questions[q].sequence_num
    /\ questions[r].depth_level = 0

\* C6: an Interview has at most one Question without an Answer.
C6_AtMostOneOpenQuestion ==
  \A i \in DOMAIN interviews : Cardinality(OpenQuestions(i)) <= 1

\* C7: no Question has more than one Answer row.
C7_OneAnswerPerQuestion ==
  \A q \in DOMAIN questions : AnswersOf(q) <= 1
C9_SecondFinishIdentical ==
  [][(FinishInterview /\ ret.op = "finishInterview" /\ ret.ok)
       => (ret' = ret /\ UNCHANGED <<interviews, questions, answers, sessionStatus>>)]_vars

\* the row of an interview, its Questions and their Answers are the same
\* after the step
Untouched(i) ==
  /\ i \in DOMAIN interviews'
  /\ interviews'[i] = interviews[i]
  /\ QuestionsOf(i)' = QuestionsOf(i)
  /\ \A q \in QuestionsOf(i) :
       /\ questions'[q] = questions[q]
       /\ AnswersOf(q)' = AnswersOf(q)

\* a startInterview call
IsStart == nextInterviewId' # nextInterviewId

C11_NoOpenQuestionReported ==
  [][(/\ GetInterviewState
      /\ LatestInterview # 0
      /\ interviews[LatestInterview].status = "in_progress"
      /\ OpenQuestions(LatestInterview) = {})
       => ~ret'.ok]_vars

\* C12: with an empty competency list no Interview row (so no QuestionPlan)
\* and no Question row is ever stored.
C12_EmptyListCreatesNothing ==
  Len(jd) = 0 => (DOMAIN interviews = {} /\ DOMAIN questions = {})

\* r is x = num / den rounded to the nearest integer, a half going up
IsRounded(r, num, den) ==
  /\ 2 * r * den - den <= 2 * num
  /\ 2 * num < 2 * r * den + den

\* C13: the plan of a non-empty competency list keeps the order of the list,
\* gives competency i the larger of 1 and round(T * w_i / sum(w)) (of
\* round(T / n) when the weights sum to 0) planned questions, at least 1
\* each, and records their sum as total_planned_questions; two equal weights
\* and T = 4 give 2, 2 and a total of 4.
C13_PlanFormula ==
  planned.called =>
    LET input == planned.input
        n == Len(input)
        T == planned.target
        plan == planned.plan
        sumw == SumSeq([i \in 1..n |-> input[i].weight], n)
        pq(i) == plan.competencies[i].planned_questions
        AsFormula(i, num, den) ==
          \/ IsRounded(pq(i), num, den) /\ pq(i) >= 1
          \/ pq(i) = 1 /\ 2 * num < den
    IN /\ Len(plan.competencies) = n
       /\ \A i \in 1..n :
            /\ plan.competencies[i].name = input[i].name
            /\ pq(i) >= 1
            /\ IF sumw > 0 THEN AsFormula(i, T * input[i].weight, sumw)
                           ELSE AsFormula(i, T, n)
       /\ plan.total_planned_questions = SumSeq([i \in 1..n |-> pq(i)], n)
       /\ (n = 2 /\ input[1].weight = input[2].weight /\ T = 4)
            => (pq(1) = 2 /\ pq(2) = 2 /\ plan.total_planned_questions = 4)

\* a plan where one competency is lifted to 1 and another is rounded up from a half
C13_Witness ==
  /\ planned.called
  /\ planned.target = 3
  /\ Len(planned.input) = 3
  /\ planned.input[1].weight = 1
  /\ planned.input[2].weight = 0
  /\ planned.input[3].weight = 1
  /\ planned.plan.competencies[1].planned_questions = 2
  /\ planned.plan.competencies[2].planned_questions = 1
  /\ planned.plan.total_planned_questions = 5

\* C14: the overall_score of every evaluation evaluateResponse returns, from
\* the backend or from the mock, is the mean of its five dimension scores.
C14_OverallIsMeanOfDimensions ==
  evaluated.called =>
    LET r == evaluated.result IN
    5 * r.overall_score =
      r.relevance + r.depth + r.accuracy + r.examples + r.communication

\* C15: a generateJSON call that gives up throws a typed failure:
\* GenerationUnavailable when the last thing that failed was the backend
\* call, MalformedGenerationOutput when it was the payload.
C15_TypedFailure ==
  gateway.phase = "thrown" =>
    /\ gateway.lastError = "completion" => gateway.errorName = "GenerationUnavailable"
    /\ gateway.lastError = "syntax" => gateway.errorName = "MalformedGenerationOutput"

\* C16: a generateJSON call whose backend calls all failed at transport level
\* has made at most maxRetries backend calls.
C16_TransportFailureNotRetriedAgain ==
  (gateway.phase = "thrown" /\ gateway.parseFailures = 0)
    => gateway.backendCalls <= MaxRetries

\* request p and another request are both in flight on question q, and q
\* had no Answer when each of them read it
BothInFlightOn(p, q) ==
  /\ flight[p].questionId = q
  /\ flight[p].openAtStart
  /\ \E r \in Requests \ {p} :
       /\ flight[r].pc # "idle"
       /\ flight[r].questionId = q
       /\ flight[r].openAtStart

\* C17: of two processAnswer calls in flight at the same time on the same
\* open question at most one stores an Answer: the question never has more
\* than one Answer row after a step of either.
C17_OneConcurrentSubmissionPasses ==
  [][\A p \in Requests, q \in QuestionIds, evaluation \in Evaluations :
       (EvaluationSettles(p, evaluation) /\ BothInFlightOn(p, q))
         => AnswersOf(q)' <= 1]_vars

\* a step of request p's processAnswer call
StepOf(p) ==
  \/ \E evaluation \in Evaluations \cup {EvaluationFailure} :
       EvaluationSettles(p, evaluation)
  \/ \E generated \in {"generated", GatewayFailure} : GenerationSettles(p, generated)

\* C18: a finish call made while a processAnswer call of the interview is in
\* flight does not complete the interview, and a processAnswer call in flight
\* on a completed interview changes no Interview, Question or Answer row.
C18_FinishNotPreemptive ==
  [][/\ (/\ FinishInterview
         /\ LatestInterview # 0
         /\ interviews[LatestInterview].status = "in_progress"
         /\ \E p \in Requests :
              flight[p].pc # "idle" /\ flight[p].id = LatestInterview)
          => interviews'[LatestInterview].status = "in_progress"
     /\ \A p \in Requests :
          (/\ flight[p].pc # "idle"
           /\ interviews[flight[p].id].status = "completed"
           /\ StepOf(p))
            => UNCHANGED <<interviews, questions, answers>>]_vars

\* C19: when processAnswer has just ended an interview whose calls were all
\* made on the open question and met no gateway failure, every competency
\* of its question plan has a Question.
C19_CompetencyCoverage ==
  (ret.op = "processAnswer" /\ ret.ok /\ ret.isComplete /\ cleanTurns >= 0) =>
    LET id == LatestInterview
        competencies == interviews[id].question_plan.competencies
    IN \A i \in 1..Len(competencies) :
         \E q \in QuestionsOf(id) : questions[q].competency = competencies[i].name

\* C20: for every competency with k >= 1 Answer rows on its questions, the
\* stored questions_asked is k and the stored avg_score is the mean of the
\* overall_score of those k answers.
C20_AvgScoreIsMean ==
  \A c \in DOMAIN answerScores :
    LET k == answerScores[c].count
        compState == interviews[LatestInterview].interview_state.competencies[c]
    IN k >= 1 =>
         /\ compState.questions_asked = k
         /\ avgScore[c].num * k = answerScores[c].sum * avgScore[c].den

\* C21: a processAnswer call that stores an Answer also writes the
\* interview_state, and a call that fails stores nothing: no call leaves an
\* Answer without the matching interview_state update.
C21_TurnAllOrNothing ==
  [][\A questionId \in QuestionIds, in \in ProcessAnswerInputs :
       TurnOn(questionId, in) =>
         /\ answers' # answers =>
              (ret'.ok /\ interviews' # interviews)
         /\ ~ret'.ok => UNCHANGED <<interviews, questions, answers>>]_vars

\* pending < in_progress < completed
StatusRank(status) ==
  CASE status = "pending" -> 0
    [] status = "in_progress" -> 1
    [] OTHER -> 2

\* the competencies of interview i are started and completed in plan order
InPlanOrder(i) ==
  LET plan == interviews[i].question_plan.competencies
      competencies == interviews[i].interview_state.competencies
  IN \A k \in 1..(Len(plan) - 1) :
       competencies[plan[k + 1].name].status # "pending"
         => competencies[plan[k].name].status = "completed"

\* C22: the status of a CompetencyState moves pending -> in_progress ->
\* completed one step at a time and never backwards, and competency i+1
\* leaves pending only after competency i is completed, whatever question
\* ids the calls name.
C22_StatusMonotoneInPlanOrder ==
  /\ [](\A i \in DOMAIN interviews : InPlanOrder(i))
  /\ [][\A i \in DOMAIN interviews \cap DOMAIN interviews' :
          \A c \in DOMAIN interviews[i].interview_state.competencies :
            LET before == StatusRank(interviews[i].interview_state.competencies[c].status)
                after == StatusRank(interviews'[i].interview_state.competencies[c].status)
            IN after \in {before, before + 1}]_vars

\* the follow-up Questions of the store
FollowUps == {q \in DOMAIN questions : questions[q].parent_id # 0}

\* C23: the Questions of an interview form a forest: a Question without a
\* parent has depth_level 0; a follow-up's parent is a stored Question of the
\* same Interview with the same competency and a depth_level one less; and a
\* follow-up is created by the call that stores an Answer to its parent.
C23_QuestionForest ==
  /\ [](\A q \in DOMAIN questions :
          IF questions[q].parent_id = 0
            THEN questions[q].depth_level = 0
            ELSE /\ questions[q].parent_id \in DOMAIN questions
                 /\ questions[q].parent_id # q
                 /\ questions[questions[q].parent_id].interview_id = questions[q].interview_id
                 /\ questions[questions[q].parent_id].competency = questions[q].competency
                 /\ questions[questions[q].parent_id].depth_level + 1 = questions[q].depth_level)
  /\ [][(/\ nextQuestionId' # nextQuestionId
          /\ questions'[nextQuestionId].parent_id # 0)
          => /\ questions'[nextQuestionId].parent_id \in DOMAIN answers'
             /\ answers'[questions'[nextQuestionId].parent_id] =
                  AnswersOf(questions'[nextQuestionId].parent_id) + 1]_vars

\* a follow-up Question has been created and answered
C23_Witness ==
  \E q \in FollowUps : AnswersOf(q) > 0

(* ----------------- two runs on the same answers ----------------------- *)
\* what the backend can return when it is used: two evaluations, two texts
BackendEvaluations == {getMockEvaluation(2), getMockEvaluation(4)}

BackendTexts == {MockText("generated", 0), MockText("generated", 1)}

\* the answers of a run: any length class in mock mode; the backend is not
\* given the length, so one class when it is used
LengthClasses(mockAiServices) == IF mockAiServices THEN {2, 3, 4} ELSE {3}

\* the first run records, the second run is compared with the first
Recorded(out, lengthClass, made) ==
  IF runs.run = 1
    THEN [runs EXCEPT !.inputs = Append(@, lengthClass),
                      !.outputs = Append(@, out),
                      !.backendCalls = @ + made]
    ELSE [runs EXCEPT !.pos = @ + 1,
                      !.same = @ /\ out = runs.outputs[runs.pos + 1],
                      !.backendCalls = @ + made]

\* startInterview of a run; the second run starts on the same session, at
\* any point of the first
RunStart(mockAiServices, text) ==
  LET generatedQuestion ==
        generateQuestion(mockAiServices,
                         [question_text |-> text, competency |-> jd[1].name],
                         jd[1], 1)
      out == IF Len(jd) = 0
               THEN [ok |-> FALSE, question |-> NoQuestion,
                     evaluation |-> getMockEvaluation(2),
                     action |-> [action |-> "", followUpType |-> ""],
                     isComplete |-> FALSE]
               ELSE [ok |-> TRUE,
                     question |-> [text |-> generatedQuestion.question_text,
                                   competency |-> generatedQuestion.competency,
                                   depth |-> 0],
                     evaluation |-> getMockEvaluation(2),
                     action |-> [action |-> "", followUpType |-> ""],
                     isComplete |-> FALSE]
      made == IF Len(jd) = 0 THEN 0 ELSE GenerateJSONCalls(mockAiServices, 1)
  IN /\ runs.run < 2
     /\ runs.run = 1 => mockAiServices = runs.mockAiServices
     /\ StartCall(IF Len(jd) = 0 THEN GatewayFailure ELSE generatedQuestion.competency)
     /\ runs' = IF runs.run = 0
                  THEN [runs EXCEPT !.mockAiServices = mockAiServices,
                                    !.run = 1,
                                    !.outputs = <<out>>,
                                    !.backendCalls = made]
                  ELSE [runs EXCEPT !.run = 2,
                                    !.pos = 1,
                                    !.same = (out = runs.outputs[1]),
                                    !.backendCalls = @ + made]

\* processAnswer of a run on the open question, with an answer of the given
\* length class; generatedEvaluation and text are what the backend returns
\* when it is used
RunAnswer(lengthClass, generatedEvaluation, text) ==
  /\ runs.run \in {1, 2}
  /\ runs.run = 2 =>
       /\ runs.pos <= Len(runs.inputs)
       /\ lengthClass = runs.inputs[runs.pos]
  /\ ActiveInterviews # {}
  /\ OpenQuestions(CHOOSE i \in ActiveInterviews : TRUE) # {}
  /\ LET id == CHOOSE i \in ActiveInterviews : TRUE
         questionId == CHOOSE q \in OpenQuestions(id) : TRUE
         question == questions[questionId]
         evalResult == evaluateResponse(runs.mockAiServices, generatedEvaluation,
                                        lengthClass)
         nextAction == determineNextAction(evalResult.overall_score,
                                           evalResult.suggested_follow_up,
                                           question.depth_level, MaxFollowUpDepth)
         created == nextQuestionId' # nextQuestionId
         row == questions'[nextQuestionId]
         generated == [question_text |-> text, competency |-> row.competency]
         generatedQuestion ==
           IF row.parent_id # 0
             THEN generateFollowUp(runs.mockAiServices, generated,
                                   question.competency, nextAction.followUpType,
                                   question.depth_level + 1)
             ELSE generateQuestion(runs.mockAiServices, generated,
                                   [name |-> row.competency], row.sequence_num)
         out == [ok |-> ret'.ok,
                 question |-> IF created
                                THEN [text |-> generatedQuestion.question_text,
                                      competency |-> row.competency,
                                      depth |-> row.depth_level]
                                ELSE NoQuestion,
                 evaluation |-> evalResult,
                 action |-> nextAction,
                 isComplete |-> ret'.isComplete]
     IN /\ AnswerTurn(questionId,
                      [ok |-> TRUE,
                       overall_score |-> evalResult.overall_score,
                       suggested_follow_up |-> evalResult.suggested_follow_up],
                      "generated")
        /\ UNCHANGED scoring
        /\ runs' = Recorded(out, lengthClass,
                            GenerateJSONCalls(runs.mockAiServices,
                                              IF created THEN 2 ELSE 1))

NextRuns ==
  \/ \E mockAiServices \in BOOLEAN :
       \E text \in IF mockAiServices THEN {MockText("generated", 0)} ELSE BackendTexts :
         RunStart(mockAiServices, text)
  \/ \E lengthClass \in LengthClasses(runs.mockAiServices) :
       \E generatedEvaluation \in
            IF runs.mockAiServices THEN {getMockEvaluation(2)} ELSE BackendEvaluations :
         \E text \in IF runs.mockAiServices THEN {MockText("generated", 0)}
                     ELSE BackendTexts :
           RunAnswer(lengthClass, generatedEvaluation, text)

SpecRuns == Init /\ [][NextRuns]_vars

\* C24: with mockAiServices set, startInterview and processAnswer make no
\* generateJSON call, and a second run given the same competency list and the
\* same answers returns in every call what the first run returned: the same
\* question (text, competency, depth), evaluation and decision, complete at
\* the same turn.
C24_MockRunsAgree ==
  runs.mockAiServices => (runs.same /\ runs.backendCalls = 0)

\* a second run in mock mode has repeated a first run of three answers, with
\* a follow-up in it, up to its completion
C24_Witness ==
  /\ runs.mockAiServices
  /\ runs.run = 2
  /\ runs.pos = Len(runs.outputs)
  /\ Len(runs.inputs) >= 3
  /\ \E k \in 1..Len(runs.outputs) : runs.outputs[k].question.depth > 0
  /\ runs.outputs[Len(runs.outputs)].isComplete
  /\ ret.isComplete

\* C25: a processAnswer call handled when the maximum interview duration has
\* elapsed since started_at completes the interview and creates no next
\* Question.
C25_DurationEndsInterview ==
  [][\A questionId \in QuestionIds, in \in ProcessAnswerInputs :
       (/\ TurnOn(questionId, in)
        /\ ret'.ok
        /\ now - interviews[CHOOSE i \in ActiveInterviews : TRUE].started_at
             >= MaxDuration)
         => (ret'.isComplete /\ nextQuestionId' = nextQuestionId)]_vars

\* C26: an overall score of 3 on a question whose depth is below maxDepth is
\* followed by a probing follow-up, whatever the evaluator suggested.
C26_ScoreThreeProbes ==
  (decision.called /\ decision.score = 30 /\ decision.depth < decision.maxDepth)
    => (decision.action = "follow_up" /\ decision.followUpType = "probe")

\* the root Questions of interview id that carry the competency
RootQuestions(id, competency) ==
  {q \in QuestionsOf(id) : /\ questions[q].competency = competency
                           /\ questions[q].depth_level = 0}

\* the pending competencies of a state, as indices of the plan
PendingIn(plan, state) ==
  {k \in 1..Len(plan.competencies) :
     state.competencies[plan.competencies[k].name].status = "pending"}

\* a processAnswer call on questionId that returns, decides to advance and is
\* not ended by the question cap or by all competencies being completed
AdvanceOn(questionId, in) ==
  /\ TurnOn(questionId, in)
  /\ ret'.ok
  /\ LET id == CHOOSE i \in ActiveInterviews : TRUE IN
       /\ determineNextAction(in[1].overall_score, in[1].suggested_follow_up,
                              questions[questionId].depth_level,
                              MaxFollowUpDepth).action = "next_question"
       /\ ~ShouldEnd(QuestionsAsked(id), interviews[id].interview_state)

\* what C27 asks of an advance of interview id
AdvanceAsStated(id) ==
  LET plan == interviews[id].question_plan
      state == interviews[id].interview_state
      after == interviews'[id].interview_state
      current == state.current_competency
      created == nextQuestionId' # nextQuestionId
      row == questions'[nextQuestionId]
      pending == PendingIn(plan, state)
      next == plan.competencies[CHOOSE k \in pending : \A j \in pending : k <= j].name
  IN IF Cardinality(RootQuestions(id, current))
          < plan.competencies[FindIndex(plan, current)].planned_questions
       THEN /\ created
            /\ row.competency = current
            /\ row.depth_level = 0
            /\ row.parent_id = 0
            /\ after.current_competency = current
            /\ ~ret'.isComplete
     ELSE /\ after.competencies[current].status = "completed"
          /\ IF pending # {}
               THEN /\ created
                    /\ row.competency = next
                    /\ row.depth_level = 0
                    /\ row.parent_id = 0
                    /\ after.current_competency = next
                    /\ ~ret'.isComplete
               ELSE /\ ~created
                    /\ ret'.isComplete
                    /\ interviews'[id].status = "completed"

\* C27: on an advance, the next Question is a root question of the current
\* competency while its root questions are fewer than planned; otherwise the
\* current competency is completed and the first pending competency of the
\* plan becomes current and gets its first question; with no pending
\* competency left the turn ends the interview and creates no Question.
C27_AdvanceLogic ==
  [][\A questionId \in QuestionIds, in \in ProcessAnswerInputs :
       AdvanceOn(questionId, in)
         => AdvanceAsStated(CHOOSE i \in ActiveInterviews : TRUE)]_vars

(* -------------------- generateCompletion on its own ------------------- *)
CallGenerateCompletion ==
  /\ completion.phase = "idle"
  /\ completion' = [completion EXCEPT !.phase = "running"]
  /\ UNCHANGED <<engine, decision, planned, evaluated, gateway, flight, scoring, runs>>

\* the outcomes of one pass of the try block: fetch rejects, the timeout
\* signal aborts it, the status is not OK, response.json() rejects, or the
\* response is returned
FetchOutcomes == {"rejected", "timeout", "status", "body", "ok"}

\* one pass of the retry loop: the fetch and, when it failed, the catch block
\* with its wait
Fetch(outcome) ==
  /\ completion.phase = "running"
  /\ completion.attempt < MaxRetries
  /\ completion' =
       IF outcome = "ok"
         THEN [completion EXCEPT !.fetches = @ + 1, !.phase = "returned"]
         ELSE [completion EXCEPT
                 !.fetches = @ + 1,
                 !.errors = Append(@, outcome),
                 !.waits = IF completion.attempt < MaxRetries - 1
                             THEN Append(@, Backoff(completion.attempt))
                             ELSE @,
                 !.attempt = @ + 1,
                 !.phase = IF completion.attempt + 1 < MaxRetries
                             THEN "running" ELSE "thrown"]
  /\ UNCHANGED <<engine, decision, planned, evaluated, gateway, flight, scoring, runs>>

NextCompletion ==
  \/ CallGenerateCompletion
  \/ \E outcome \in FetchOutcomes : Fetch(outcome)

SpecCompletion == Init /\ [][NextCompletion]_vars

\* C28: a generateCompletion call makes at most maxRetries backend calls; it
\* goes on after a failed call while calls remain, returns at the first
\* successful call and makes no call after it, and fails after the
\* maxRetries-th failed call; it has waited 2^k seconds after failed attempt
\* k, and not after the last attempt.
C28_OuterRetryLayer ==
  /\ [](/\ completion.fetches <= MaxRetries
        /\ completion.fetches =
             Len(completion.errors) + (IF completion.phase = "returned" THEN 1 ELSE 0)
        /\ (completion.phase = "thrown") = (Len(completion.errors) = MaxRetries)
        /\ Len(completion.waits) = Min(Len(completion.errors), MaxRetries - 1)
        /\ \A k \in 1..Len(completion.waits) : completion.waits[k] = 2 ^ (k - 1))
  /\ [][completion.phase \in {"returned", "thrown"} => completion' = completion]_vars

\* the call returned at its last attempt, after waiting 1 and 2 seconds
C28_Witness ==
  /\ completion.phase = "returned"
  /\ Len(completion.errors) = MaxRetries - 1
  /\ completion.waits = <<1, 2>>

\* C29: generateJSON never returns a payload that parses as JSON and does not
\* have the expected shape; a call that met such a payload has tried again
\* and, failing that, thrown MalformedGenerationOutput.
C29_MismatchNeverReturned ==
  /\ gateway.phase = "returned" => gateway.payload = "valid"
  /\ gateway.payload = "mismatched" =>
       (gateway.phase = "thrown" /\ gateway.errorName = "MalformedGenerationOutput")

\* C30: each of the five dimension scores of an evaluation evaluateResponse
\* returns lies within 1..5, whatever the backend supplied.
C30_DimensionsClamped ==
  evaluated.called =>
    \A d \in Dimensions : evaluated.result[d] >= 10 /\ evaluated.result[d] <= 50

\* C31: between calls, an Interview that is in_progress has exactly one
\* Question without an Answer.
C31_InProgressHasOneOpenQuestion ==
  \A i \in DOMAIN interviews :
    interviews[i].status = "in_progress" => Cardinality(OpenQuestions(i)) = 1

\* C32: a startInterview call that fails leaves the Interviews, Questions and
\* Answers as they were before the call.
C32_FailedStartChangesNothing ==
  [][(IsStart /\ ~ret'.ok) => UNCHANGED <<interviews, questions, answers>>]_vars

(* ----------------------- three competency areas ----------------------- *)
\* a parsed job description of three areas of equal weight
ThreeAreas == {<<Area("A", 1), Area("B", 1), Area("C", 1)>>}

\* one interview on the three areas
NextAreas ==
  \/ /\ nextInterviewId = 1
     /\ \E generated \in GeneratedCompetencies \cup {GatewayFailure} :
          StartInterview(generated)
  \/ \E questionId \in QuestionIds :
       \E in \in InputsFor(questionId) :
         ProcessAnswer(questionId, in[1], in[2])

SpecAreas == InitWith(ThreeAreas) /\ [][NextAreas]_vars

\* the competencies of interview i that are in_progress
InProgress(i) ==
  {c \in DOMAIN interviews[i].interview_state.competencies :
     interviews[i].interview_state.competencies[c].status = "in_progress"}

\* C33: while an Interview is in_progress exactly one competency is
\* in_progress, and current_competency names it.
C33_OneCurrentCompetency ==
  \A i \in DOMAIN interviews :
    interviews[i].status = "in_progress" =>
      InProgress(i) = {interviews[i].interview_state.current_competency}

\* C34: no competency of the plan has more root Questions than its
\* planned_questions.
C34_RootsWithinPlan ==
  \A i \in DOMAIN interviews :
    \A k \in 1..Len(interviews[i].question_plan.competencies) :
      Cardinality(RootQuestions(i, interviews[i].question_plan.competencies[k].name))
        <= interviews[i].question_plan.competencies[k].planned_questions

\* the first Question of interview i
FirstQuestions(i) == {q \in QuestionsOf(i) : questions[q].sequence_num = 1}

\* C35: the competency of every Question is a competency of the interview's
\* plan, and the Question startInterview creates carries the first
\* competency of the plan, whatever competency the generator returned.
C35_CompetencyTagsFromPlan ==
  \A q \in DOMAIN questions :
    LET plan == interviews[questions[q].interview_id].question_plan IN
    /\ FindIndex(plan, questions[q].competency) # 0
    /\ q \in FirstQuestions(questions[q].interview_id)
         => questions[q].competency = plan.competencies[1].name

\* C36: when a startInterview or processAnswer call has returned, the stored
\* total_questions of the interview is the number of its Answer rows.
C36_TotalQuestionsCountsAnswers ==
  (ret.ok /\ ret.op \in {"startInterview", "processAnswer"}) =>
    \A i \in DOMAIN interviews :
      interviews[i].interview_state.total_questions =
        SumCounts([q \in QuestionsOf(i) |-> AnswersOf(q)], QuestionsOf(i))

\* C37: while an Interview is in_progress, the current_depth of the
\* competency of its open Question is the depth_level of that Question; here
\* on the runs that answer only the open question and meet no failed
\* generation.
C37_CurrentDepthOfOpenQuestion ==
  cleanTurns >= 0 =>
    \A i \in DOMAIN interviews :
      interviews[i].status = "in_progress" =>
        \A q \in OpenQuestions(i) :
          questions[q].competency \in DOMAIN interviews[i].interview_state.competencies
            => interviews[i].interview_state.competencies[questions[q].competency].current_depth
                 = questions[q].depth_level

\* C38: the sequence_num values of the Questions of an interview are 1..n,
\* n being the number of its Questions, each once and in creation order.
C38_SequenceNumbers ==
  \A i \in DOMAIN interviews :
    /\ {questions[q].sequence_num : q \in QuestionsOf(i)}
         = 1..Cardinality(QuestionsOf(i))
    /\ \A q, r \in QuestionsOf(i) :
         q < r => questions[q].sequence_num < questions[r].sequence_num

\* an interview has three Questions, a follow-up among them, after a call on
\* a question that was not open or a failed generation
C38_Witness ==
  \E i \in DOMAIN interviews :
    /\ Cardinality(QuestionsOf(i)) = 3
    /\ \E q \in QuestionsOf(i) : questions[q].parent_id # 0
    /\ cleanTurns = -1

\* C39: when processAnswer has returned isComplete = true, on a run whose
\* calls were all on the open question and met no failure, the interview is
\* completed with completed_at set and the status of the session is
\* completed.
C39_CompleteMarksSession ==
  (ret.op = "processAnswer" /\ ret.ok /\ ret.isComplete /\ cleanTurns >= 0) =>
    /\ interviews[LatestInterview].status = "completed"
    /\ interviews[LatestInterview].completed_at # -1
    /\ sessionStatus = "completed"

====
